---------------------------- MODULE Spec2Model ----------------------------
(***************************************************************************)
(* PELE: a composite player rating computed from match-level rows.         *)
(*                                                                         *)
(* The module models compute_pele of src/pele/metric.py (the fixed-weight  *)
(* scorer) as a state machine over one call and the calls nested in it,    *)
(* the pure helpers _safe, _per90, _zscore, _minutes_multiplier as         *)
(* operators, and _position_bucket of src/pele/metric_position_weighted.py *)
(* as the steps of its body.  Three specifications share the variables:    *)
(*   Spec          calls on tables of up to MaxRows rows, every group_by   *)
(*                 of GroupBys, with and without required columns;         *)
(*   SpecRowLevel  row-level calls with standardize on populations of up   *)
(*                 to MaxPop rows;                                         *)
(*   SpecPos       _position_bucket on every label of up to MaxLabel       *)
(*                 characters and on the missing label.                    *)
(*                                                                         *)
(* Numbers.  The program computes in IEEE-754 binary64 (numpy float64).    *)
(* The model keeps the format and shortens the significand: a finite       *)
(* value is m * 2^e with 2^(Prec-1) <= |m| < 2^Prec (or m = 0), every      *)
(* operation rounds its exact result to nearest, ties to even, and NaN and *)
(* the infinities propagate as IEEE prescribes.  The exponent is not       *)
(* bounded (no overflow or underflow to zero), and zero carries no sign.   *)
(***************************************************************************)
EXTENDS Integers, Sequences, FiniteSets, TLC

(***************************************************************************)
(* Bounds of the model.                                                    *)
(***************************************************************************)
\* bits of the significand (binary64 has 53)
Prec == 12
\* rows of the input table
MaxRows == 2
\* members of a population handed to _zscore on its own
MaxPop == 3

(***************************************************************************)
(* Floating point.                                                         *)
(***************************************************************************)
\* The arithmetic is given as functions: a function is applied to values, so
\* an operand is computed once however often the body reads it.
Float == [c : {"num", "nan", "inf"}, m : Int, e : Int]

NaN == [c |-> "nan", m |-> 0, e |-> 0]

Inf(s) == [c |-> "inf", m |-> s, e |-> 0]

Zero == [c |-> "num", m |-> 0, e |-> 0]

Num(m, e) == [c |-> "num", m |-> m, e |-> e]

IsNaN(x) == x.c = "nan"

IsInf(x) == x.c = "inf"

IsNum(x) == x.c = "num"

IsZero(x) == x.c = "num" /\ x.m = 0

Abs(n) == IF n < 0 THEN -n ELSE n

Sgn(n) == IF n < 0 THEN -1 ELSE IF n > 0 THEN 1 ELSE 0

RECURSIVE BitLen(_)
BitLen(n) == IF n < 2 THEN n ELSE 1 + BitLen(n \div 2)

\* The steps of rounding are chained through their arguments: s is the sign,
\* a the magnitude, x the exponent of a's last bit, L the bit length of a.
\* a significand that rounded up to 2^Prec is renormalised
Carry[s \in Int, q \in Int, x \in Int] ==
  IF q = 2^Prec THEN Num(s * 2^(Prec - 1), x + 1) ELSE Num(s * q, x)

\* a = q * 2h + r is cut to q, to nearest, ties to even
Nearest[s \in Int, q \in Int, r \in Int, h \in Int, x \in Int] ==
  Carry[s, IF r > h \/ (r = h /\ q % 2 = 1) THEN q + 1 ELSE q, x]

Normal[s \in Int, a \in Int, x \in Int, L \in Int] ==
  IF L <= Prec
  THEN Num(s * a * 2^(Prec - L), x - (Prec - L))
  ELSE Nearest[s, a \div 2^(L - Prec), a % 2^(L - Prec), 2^(L - Prec - 1),
               x + (L - Prec)]

Magnitude[s \in Int, a \in Int, x \in Int] == Normal[s, a, x, BitLen(a)]

\* The exact value n * 2^e (plus, with sticky, a positive amount below one
\* unit of n's magnitude) rounded to Prec bits, nearest, ties to even.
RoundS[n \in Int, e \in Int, sticky \in BOOLEAN] ==
  IF n = 0 THEN Zero
  ELSE Magnitude[Sgn(n), IF sticky THEN 2 * Abs(n) + 1 ELSE Abs(n),
                 IF sticky THEN e - 1 ELSE e]

Round[n \in Int, e \in Int] == RoundS[n, e, FALSE]

\* an integer literal or an integer-valued cell
FromInt[n \in Int] == Round[n, 0]

Neg[x \in Float] == [x EXCEPT !.m = -x.m]

\* hi + lo for finite non-zero operands, hi of the larger exponent
Align[hi \in Float, lo \in Float] ==
  IF hi.e - lo.e > Prec + 1 THEN hi
  ELSE Round[hi.m * 2^(hi.e - lo.e) + lo.m, lo.e]

\* x + y
Add[x \in Float, y \in Float] ==
  IF IsNaN(x) \/ IsNaN(y) THEN NaN
  ELSE IF IsInf(x) THEN (IF IsInf(y) /\ y.m # x.m THEN NaN ELSE x)
  ELSE IF IsInf(y) THEN y
  ELSE IF x.m = 0 THEN y
  ELSE IF y.m = 0 THEN x
  ELSE Align[IF x.e >= y.e THEN x ELSE y, IF x.e >= y.e THEN y ELSE x]

\* x - y
Sub[x \in Float, y \in Float] == Add[x, Neg[y]]

\* x * y
Mul[x \in Float, y \in Float] ==
  IF IsNaN(x) \/ IsNaN(y) THEN NaN
  ELSE IF IsInf(x) \/ IsInf(y)
       THEN (IF x.m = 0 \/ y.m = 0 THEN NaN ELSE Inf(Sgn(x.m) * Sgn(y.m)))
  ELSE IF x.m = 0 \/ y.m = 0 THEN Zero
  ELSE Round[x.m * y.m, x.e + y.e]

\* x / y as numpy divides: x/0 is an infinity, 0/0 is NaN, nothing is raised
Div[x \in Float, y \in Float] ==
  IF IsNaN(x) \/ IsNaN(y) THEN NaN
  ELSE IF IsInf(x)
       THEN (IF IsInf(y) THEN NaN
             ELSE Inf(x.m * (IF y.m < 0 THEN -1 ELSE 1)))
  ELSE IF IsInf(y) THEN Zero
  ELSE IF y.m = 0 THEN (IF x.m = 0 THEN NaN ELSE Inf(Sgn(x.m)))
  ELSE IF x.m = 0 THEN Zero
  ELSE LET n == Abs(x.m) * 2^(Prec + 2)
           q == n \div Abs(y.m)
           r == n % Abs(y.m)
       IN RoundS[Sgn(x.m) * Sgn(y.m) * q, x.e - y.e - (Prec + 2), r # 0]

\* x < y, x <= y, x = y as IEEE compares: every comparison with NaN is false
Less[x \in Float, y \in Float] ==
  /\ ~IsNaN(x)
  /\ ~IsNaN(y)
  /\ x # y
  /\ IF IsInf(x) THEN x.m < 0
     ELSE IF IsInf(y) THEN y.m > 0
     ELSE Sub[x, y].m < 0

Eq[x \in Float, y \in Float] == ~IsNaN(x) /\ ~IsNaN(y) /\ x = y

Leq[x \in Float, y \in Float] == Less[x, y] \/ Eq[x, y]

\* a decimal literal n/d of the source, e.g. 1.20 is Dec[120, 100]
Dec[n \in Int, d \in Int] == Div[FromInt[n], FromInt[d]]

RECURSIVE ISqrtFrom(_, _, _)
ISqrtFrom(n, s, bit) ==
  IF bit = 0 THEN s
  ELSE IF (s + bit) * (s + bit) <= n
       THEN ISqrtFrom(n, s + bit, bit \div 2)
       ELSE ISqrtFrom(n, s, bit \div 2)

\* the largest s with s * s <= n, for 0 <= n < 2^30
ISqrt(n) == ISqrtFrom(n, 0, 2^14)

\* s is the integer root of n; the result is inexact when s * s # n
SqrtRound[n \in Int, s \in Int, e \in Int] == RoundS[s, e, s * s # n]

SqrtScaled[n \in Int, e \in Int] == SqrtRound[n, ISqrt(n), e]

\* x.m * 2^k has an even exponent and at least 2 * Prec + 2 bits
SqrtShift[x \in Float, k \in Int] == SqrtScaled[x.m * 2^k, (x.e - k) \div 2]

\* sqrt(x)
Sqrt[x \in Float] ==
  IF IsNaN(x) THEN NaN
  ELSE IF IsInf(x) THEN (IF x.m > 0 THEN x ELSE NaN)
  ELSE IF x.m < 0 THEN NaN
  ELSE IF x.m = 0 THEN Zero
  ELSE SqrtShift[x, IF (x.e - 16) % 2 = 0 THEN 16 ELSE 15]

\* Fixed point of 15 fractional bits, for the logarithm.
FixOne == 2^15

\* atanh(z) / z = 1 + z^2/3 + z^4/5 + ... + z^10/11, on z2 = z^2
Horner[z2 \in Int] ==
  FixOne + (z2 * (FixOne \div 3 + (z2 * (FixOne \div 5 + (z2 * (FixOne \div 7
    + (z2 * (FixOne \div 9 + (z2 * (FixOne \div 11)) \div FixOne))
    \div FixOne)) \div FixOne)) \div FixOne)) \div FixOne

\* log(t) = 2 atanh(z) for z = (t - 1) / (t + 1)
LnT[z \in Int] == (2 * z * Horner[(z * z) \div FixOne]) \div FixOne

\* log(y) for a finite y: y = t * 2^E with 1 <= t < 2, log(y) = E log 2 + log(t)
\* (22713 is log 2 in the fixed point)
Log[y \in Float] ==
  IF y.m < 0 THEN NaN
  ELSE IF y.m = 0 THEN Inf(-1)
  ELSE Round[(y.e + Prec - 1) * 22713
             + LnT[((y.m - 2^(Prec - 1)) * FixOne) \div (y.m + 2^(Prec - 1))],
             -15]

\* log1p(x) = log(1 + x)
Log1p[x \in Float] ==
  IF IsNaN(x) THEN NaN
  ELSE IF IsInf(x) THEN (IF x.m > 0 THEN x ELSE NaN)
  ELSE IF x.m = 0 THEN Zero
  ELSE Log[Add[FromInt[1], x]]

(***************************************************************************)
(* The canonical schema.                                                   *)
(***************************************************************************)
\* metric.py:97-125, in the order the validation loop visits them
required ==
  << "player_id", "match_id", "minutes", "np_goals", "penalty_goals",
     "assists", "xg", "xa", "key_passes", "progressive_passes",
     "progressive_carries", "successful_dribbles", "turnovers", "tackles",
     "interceptions", "blocks", "aerials_won", "shots", "shots_on_target",
     "pass_completion_pct", "passes_into_final_third", "progressive_receives",
     "tackles_def_third", "tackles_mid_third", "tackles_att_third",
     "dribble_success_pct" >>

\* the raw stats of the rates dict, metric.py:131-154 (each yields <stat>_p90)
rate_stats ==
  << "np_goals", "penalty_goals", "assists", "xg", "xa", "key_passes",
     "progressive_passes", "progressive_carries", "successful_dribbles",
     "turnovers", "tackles", "interceptions", "blocks", "aerials_won",
     "shots", "shots_on_target", "passes_into_final_third",
     "progressive_receives", "tackles_def_third", "tackles_mid_third",
     "tackles_att_third" >>

\* metric.py:225-250
agg_cols ==
  << "minutes", "np_goals", "penalty_goals", "assists", "xg", "xa",
     "key_passes", "progressive_passes", "progressive_carries",
     "successful_dribbles", "turnovers", "tackles", "interceptions", "blocks",
     "aerials_won", "shots", "shots_on_target", "passes_into_final_third",
     "progressive_receives", "tackles_def_third", "tackles_mid_third",
     "tackles_att_third", "dribble_attempts" >>

\* metric.py:252
pct_cols == << "pass_completion_pct", "dribble_success_pct" >>

\* metric.py:202
identity_candidates == << "player_id", "player_name", "season", "team_id" >>

\* metric.py:210-218
component_cols == << "oc", "dc", "base_score", "min_mult", "pele_raw" >>

Range(s) == { s[i] : i \in DOMAIN s }

\* the output column of a raw stat, f"{stat}_p90"
P90(stat) == stat \o "_p90"

p90_cols == { P90(s) : s \in Range(rate_stats) }

\* c.endswith("_p90"), metric.py:279
EndsWithP90(c) == c \in p90_cols

(***************************************************************************)
(* PeleWeights, metric.py:10-33.                                           *)
(***************************************************************************)
w_g == Dec[120, 100]
w_pk == Dec[30, 100]
w_a == Dec[80, 100]
w_xg == Dec[50, 100]
w_xa == Dec[40, 100]
w_kp == Dec[20, 100]
w_prog == Dec[8, 100]
w_drib == Dec[6, 100]
w_to == Dec[10, 100]
w_shot == Dec[3, 100]
w_sot == Dec[5, 100]
w_pass_pct == Dec[2, 100]
w_final_third == Dec[4, 100]
w_prog_rec == Dec[5, 100]
w_ti == Dec[12, 100]
w_blk == Dec[8, 100]
w_air == Dec[5, 100]
w_tkl_def == Dec[4, 100]
w_tkl_mid == Dec[2, 100]
w_tkl_att == Dec[1, 100]

(***************************************************************************)
(* The pure helpers of metric.py.                                          *)
(***************************************************************************)
\* A value that is read more than once is bound by a set constructor,
\* { f(x) : x \in {e} }, so that it is computed once; The takes the one element
\* back out.
The(S) == CHOOSE x \in S : TRUE

\* x ** 2.0
Pow2[x \in Float] == Mul[x, x]

\* _safe on one cell: fillna(0.0).astype(float)
Safe[x \in Float] == IF IsNaN(x) THEN Zero ELSE x

\* Series.replace(0, v) on one cell
Replace0[x \in Float, v \in Float] == IF IsZero(x) THEN v ELSE x

\* _per90 on one row
Per90(row, col) ==
  Div[Safe[row[col]], Div[Replace0[row["minutes"], NaN], FromInt[90]]]

RECURSIVE SumFrom(_, _, _)
SumFrom(s, i, acc) ==
  IF i > Len(s) THEN acc ELSE SumFrom(s, i + 1, Add[acc, s[i]])

\* ndarray.sum(): the elements added in order
Sum(s) == SumFrom(s, 1, Zero)

SelectNotNaN(s) == SelectSeq(s, LAMBDA x : ~IsNaN(x))

\* Series.mean() (skipna): NaN for no value
Mean(s) ==
  The({ IF Len(v) = 0 THEN NaN ELSE Div[Sum(v), FromInt[Len(v)]] :
          v \in {SelectNotNaN(s)} })

\* Series.std(ddof=0) (skipna), as nanops.nanvar computes it
Std0(s) ==
  The({ IF Len(v) = 0 THEN NaN
        ELSE The({ Sqrt[Div[Sum([i \in DOMAIN v |-> Pow2[Sub[avg, v[i]]]]),
                            FromInt[Len(v)]]] :
                     avg \in {Div[Sum(v), FromInt[Len(v)]]} }) :
          v \in {SelectNotNaN(s)} })

\* the values over their deviation, the mean left in
Uncentred(values) ==
  The({ IF IsZero(sigma) \/ IsNaN(sigma)
        THEN [i \in DOMAIN values |-> Zero]
        ELSE [i \in DOMAIN values |-> Div[values[i], sigma]] :
          sigma \in {Std0(values)} })

\* _zscore
ZScore(values) ==
  The({ IF IsZero(sigma) \/ IsNaN(sigma)
        THEN [i \in DOMAIN values |-> Zero]
        ELSE [i \in DOMAIN values |-> Div[Sub[values[i], mu], sigma]] :
          mu \in {Mean(values)}, sigma \in {Std0(values)} })

\* _minutes_multiplier on one cell, power = 2.0
MinutesMultiplier(minutes, reference) ==
  Pow2[Div[Log1p[minutes], Log1p[reference]]]

\* 50.0 + 10.0 * z
Pele100(z) == Add[FromInt[50], Mul[FromInt[10], z]]

(***************************************************************************)
(* Tables.  A DataFrame is its set of column names and its rows in order;  *)
(* a row is a function from the column names to cells.  A numeric cell is  *)
(* a float (a missing value is NaN, as pandas stores it), an identity cell *)
(* is a string.                                                            *)
(***************************************************************************)
Table(cols, rows) == [cols |-> cols, rows |-> rows]

NoTable == Table({}, <<>>)

\* df[cols]
Project(row, cols) == [c \in cols |-> row[c]]

Column(t, c) == [i \in DOMAIN t.rows |-> t.rows[i][c]]

\* the strings of the model in Python's string order
string_order ==
  << "Ann", "Bob", "M1", "M2", "M3", "M4", "M5", "P1", "P2", "S1", "S2",
     "T1", "__aggregate__" >>

StrRank(s) == CHOOSE i \in DOMAIN string_order : string_order[i] = s

RECURSIVE KeyLess(_, _)
\* tuples of strings compared as Python compares tuples
KeyLess(a, b) ==
  IF Len(a) = 0 \/ Len(b) = 0 THEN Len(a) < Len(b)
  ELSE IF a[1] # b[1] THEN StrRank(a[1]) < StrRank(b[1])
  ELSE KeyLess(Tail(a), Tail(b))

RECURSIVE SortKeys(_)
\* a set of keys in ascending order
SortKeys(S) ==
  IF S = {} THEN <<>>
  ELSE LET k == CHOOSE x \in S : \A y \in S \ {x} : KeyLess(x, y)
       IN <<k>> \o SortKeys(S \ {k})

(***************************************************************************)
(* compute_pele, metric.py:66-297, block by block.                         *)
(***************************************************************************)
\* metric.py:126-128: the required columns absent from the table, as positions
Absent(t) == { i \in DOMAIN required : required[i] \notin t.cols }

\* the absent column that comes last in the required list
LastAbsent(t) ==
  required[CHOOSE i \in Absent(t) : \A j \in Absent(t) : j <= i]

\* metric.py:128: the column the raised ValueError names
FirstAbsent(t) ==
  required[CHOOSE i \in Absent(t) : \A j \in Absent(t) : i <= j]

\* metric.py:131-155: one row of rates_df, keyed by raw stat
Rates(row) ==
  [s \in Range(rate_stats) |-> Safe[Per90(row, s)]]

\* metric.py:161-182
Oc(row, r) ==
  LET pass_cmp_pct == Safe[row["pass_completion_pct"]]
      dribble_success_pct == Safe[row["dribble_success_pct"]]
      t1 == Mul[w_g, r["np_goals"]]
      t2 == Add[t1, Mul[w_pk, r["penalty_goals"]]]
      t3 == Add[t2, Mul[w_a, r["assists"]]]
      t4 == Add[t3, Mul[w_xg, Sub[r["xg"], r["np_goals"]]]]
      t5 == Add[t4, Mul[w_xa, Sub[r["xa"], r["assists"]]]]
      t6 == Add[t5, Mul[w_kp, r["key_passes"]]]
      t7 == Add[t6, Mul[w_prog, Add[r["progressive_passes"],
                                    Mul[Dec[7, 10], r["progressive_carries"]]]]]
      t8 == Add[t7, Mul[w_drib, r["successful_dribbles"]]]
      t9 == Sub[t8, Mul[w_to, r["turnovers"]]]
      t10 == Add[t9, Mul[w_shot, r["shots"]]]
      t11 == Add[t10, Mul[w_sot, r["shots_on_target"]]]
      t12 == Add[t11, Mul[w_pass_pct, Div[pass_cmp_pct, FromInt[100]]]]
      t13 == Add[t12, Mul[w_final_third, r["passes_into_final_third"]]]
      t14 == Add[t13, Mul[w_prog_rec, r["progressive_receives"]]]
  IN Add[t14, Mul[w_drib, Div[dribble_success_pct, FromInt[100]]]]

\* metric.py:185-193
Dc(r) ==
  LET t1 == Mul[w_ti, Add[r["tackles"], r["interceptions"]]]
      t2 == Add[t1, Mul[w_blk, r["blocks"]]]
      t3 == Add[t2, Mul[w_air, r["aerials_won"]]]
      t4 == Add[t3, Mul[w_tkl_def, r["tackles_def_third"]]]
      t5 == Add[t4, Mul[w_tkl_mid, r["tackles_mid_third"]]]
  IN Add[t5, Mul[w_tkl_att, r["tackles_att_third"]]]

\* metric.py:196
AvgMinutes(t) == Mean([i \in DOMAIN t.rows |-> Safe[t.rows[i]["minutes"]]])

\* metric.py:202-204
IdentityCols(t) ==
  LET present == { c \in Range(identity_candidates) : c \in t.cols }
  IN IF present = {} THEN {"player_id"} ELSE present

\* metric.py:199
BaseScore(oc, dc) == Add[oc, dc]

\* the base score taken for the final score
Unweighted(base_score, min_mult) == base_score

\* metric.py:200
PeleRaw(base_score, min_mult) == Mul[base_score, min_mult]

\* the raw stat a rate column is computed from
StatOf(c) == CHOOSE s \in Range(rate_stats) : P90(s) = c

\* metric.py:130-221: one row of `out`
ScoreRow(t, row, avg_minutes) ==
  The({ The({ LET base_score == BaseScore(oc, dc)
                  pele_raw == PeleRaw(base_score, min_mult)
              IN [c \in IdentityCols(t) \cup p90_cols \cup Range(component_cols) |->
                    IF c \in p90_cols THEN r[StatOf(c)]
                    ELSE IF c = "oc" THEN oc
                    ELSE IF c = "dc" THEN dc
                    ELSE IF c = "base_score" THEN base_score
                    ELSE IF c = "min_mult" THEN min_mult
                    ELSE IF c = "pele_raw" THEN pele_raw
                    ELSE row[c]] :
                oc \in {Oc(row, r)},
                dc \in {Dc(r)},
                min_mult \in {MinutesMultiplier(Safe[row["minutes"]], avg_minutes)} }) :
          r \in {Rates(row)} })

\* metric.py:130-221: `out`
Score(t) ==
  The({ Table(IdentityCols(t) \cup p90_cols \cup Range(component_cols),
              [i \in DOMAIN t.rows |-> ScoreRow(t, t.rows[i], avg_minutes)]) :
          avg_minutes \in {AvgMinutes(t)} })

\* the group key of a row
KeyOf(row, group_cols) == [i \in DOMAIN group_cols |-> row[group_cols[i]]]

\* groupby(group_cols, dropna=False): the distinct keys, sorted
GroupKeys(t, group_cols) ==
  SortKeys({ KeyOf(t.rows[i], group_cols) : i \in DOMAIN t.rows })

\* rows matched on the first key column only
GroupRowsByFirstColumn(t, group_cols, key) ==
  SelectSeq(t.rows, LAMBDA row : row[group_cols[1]] = key[1])

\* the rows of one group, in table order
GroupRows(t, group_cols, key) ==
  SelectSeq(t.rows, LAMBDA row : KeyOf(row, group_cols) = key)

\* One step of the compensated (Kahan) summation of pandas' group_sum on
\* acc = <<sumx, compensation>>: y = val - compensation, t = sumx + y,
\* compensation = t - sumx - y (reset to 0 when it is NaN), sumx = t.
KahanNext[sumx \in Float, y \in Float, t \in Float] ==
  <<t, Safe[Sub[Sub[t, sumx], y]]>>

KahanY[sumx \in Float, y \in Float] == KahanNext[sumx, y, Add[sumx, y]]

KahanStep[acc \in Float \X Float, val \in Float] ==
  KahanY[acc[1], Sub[val, acc[2]]]

RECURSIVE KahanFrom(_, _, _)
KahanFrom(s, i, acc) ==
  IF i > Len(s) THEN acc[1] ELSE KahanFrom(s, i + 1, KahanStep[acc, s[i]])

\* agg "first": the value of the group's first row
GroupFirst(rows, c) == rows[1][c]

\* metric.py:260: agg "sum" of one column over one group (NaN skipped)
GroupSum(rows, c) ==
  KahanFrom(SelectNotNaN([i \in DOMAIN rows |-> rows[i][c]]), 1, <<Zero, Zero>>)

\* a percentage summed as the counting stats are
PctSummed(rows, c) == GroupSum(rows, c)

\* metric.py:263: np.average(x, weights=minutes.replace(0, 1)) over one group
GroupPct(rows, c) ==
  The({ Div[Sum([i \in DOMAIN rows |-> Mul[rows[i][c], w[i]]]), Sum(w)] :
          w \in {[i \in DOMAIN rows |-> Replace0[rows[i]["minutes"], FromInt[1]]]} })

\* metric.py:270: x.mode().iat[0] if len(x.mode()) else x.iloc[0]
NameMode(rows) ==
  LET names == [i \in DOMAIN rows |-> rows[i]["player_name"]]
      Count(n) == Cardinality({ i \in DOMAIN names : names[i] = n })
      modes == { n \in Range(names) : \A o \in Range(names) : Count(o) <= Count(n) }
  IN IF modes = {} THEN names[1]
     ELSE CHOOSE n \in modes : \A o \in modes : StrRank(n) <= StrRank(o)

\* metric.py:253-254
Present(t) == { c \in Range(agg_cols) : c \in t.cols }

PresentPct(t) == { c \in Range(pct_cols) : c \in t.cols }

\* metric.py:268
CarriesName(t, group_cols) ==
  "player_name" \in t.cols /\ "player_name" \notin Range(group_cols)

\* metric.py:258-273: the columns of `rep`
RepCols(t, group_cols) ==
  Range(group_cols) \cup Present(t) \cup PresentPct(t)
    \cup (IF CarriesName(t, group_cols) THEN {"player_name"} ELSE {})
    \cup {"match_id"}

\* metric.py:258-273: the row of `rep` for one group
RepRow(t, group_cols, key) ==
  The({ [c \in RepCols(t, group_cols) |->
           IF c = "match_id" THEN "__aggregate__"
           ELSE IF c \in Range(group_cols)
                THEN key[CHOOSE i \in DOMAIN group_cols : group_cols[i] = c]
           ELSE IF c \in Present(t) THEN GroupSum(rows, c)
           ELSE IF c \in PresentPct(t) THEN GroupPct(rows, c)
           ELSE NameMode(rows)] :
          rows \in {GroupRows(t, group_cols, key)} })

\* metric.py:258-273: `rep`, one row per group in sorted key order
Aggregated(t, group_cols) ==
  The({ Table(RepCols(t, group_cols),
              [i \in DOMAIN keys |-> RepRow(t, group_cols, keys[i])]) :
          keys \in {GroupKeys(t, group_cols)} })

\* metric.py:277-279: the columns selected from tmp
ResultCols(tmp, group_cols) ==
  Range(group_cols) \cup Range(component_cols)
    \cup { c \in tmp.cols : EndsWithP90(c) }

\* metric.py:282-286: the first non-null player_name of each key
FirstName(t, group_cols, key) ==
  LET rows == GroupRows(t, group_cols, key)
  IN rows[1]["player_name"]

\* metric.py:281-287: result.merge(names, on=group_cols, how="left")
Merged(t, group_cols, result) ==
  IF CarriesName(t, group_cols)
  THEN Table(result.cols \cup {"player_name"},
             [i \in DOMAIN result.rows |->
                [c \in result.cols \cup {"player_name"} |->
                   IF c = "player_name"
                   THEN FirstName(t, group_cols, KeyOf(result.rows[i], group_cols))
                   ELSE result.rows[i][c]]])
  ELSE result

\* metric.py:290 and 296: the table with its pele_100 column
Standardized(t) ==
  The({ Table(t.cols \cup {"pele_100"},
              [i \in DOMAIN t.rows |->
                 [c \in t.cols \cup {"pele_100"} |->
                    IF c = "pele_100" THEN Pele100(z[i]) ELSE t.rows[i][c]]]) :
          z \in {ZScore(Column(t, "pele_raw"))} })

\* a permutation of 1..n
Perms(n) == { p \in [1..n -> 1..n] : \A i, j \in 1..n : i # j => p[i] # p[j] }

\* sort_values(by=["pele_raw"], ascending=False): descending, NaN last.
\* The default kind is quicksort, which promises no order among equal keys.
IsDescending(rows) ==
  \A i, j \in DOMAIN rows :
     i < j =>
       LET a == rows[i]["pele_raw"]
           b == rows[j]["pele_raw"]
       IN \/ IsNaN(b)
          \/ (~IsNaN(a) /\ Leq[b, a])

\* metric.py:292: the orders sort_values may return
SortedOrders(t) ==
  { [i \in DOMAIN t.rows |-> t.rows[p[i]]] :
      p \in { q \in Perms(Len(t.rows)) :
                IsDescending([i \in DOMAIN t.rows |-> t.rows[q[i]]]) } }

(***************************************************************************)
(* The inputs the model draws.                                             *)
(***************************************************************************)
numeric_cols == {"minutes"} \cup Range(rate_stats) \cup Range(pct_cols)

AllColumns ==
  Range(required) \cup {"player_name", "season", "team_id"}

\* a stat line: the given cells, every other numeric cell 0
StatLine(given) ==
  [c \in numeric_cols |-> IF c \in DOMAIN given THEN given[c] ELSE Zero]

\* 90 minutes, a goal from 0.8 xG
LineA ==
  StatLine([minutes |-> FromInt[90], np_goals |-> FromInt[1], xg |-> Dec[8, 10]])

\* 45 minutes, an assist from 0.5 xA, two tackles
LineB ==
  StatLine([minutes |-> FromInt[45], assists |-> FromInt[1], xa |-> Dec[5, 10],
            tackles |-> FromInt[2]])

\* no minutes, yet a goal and a pass completion of 80 %
LineZ ==
  StatLine([minutes |-> Zero, np_goals |-> FromInt[1],
            pass_completion_pct |-> FromInt[80]])

StatLines == {LineA, LineB, LineZ}

Identities == { <<"P1", "S1">>, <<"P1", "S2">>, <<"P2", "S1">> }

PlayerName(pid) == IF pid = "P1" THEN "Ann" ELSE "Bob"

\* the i-th row of an input table
MkRow(i, id, line) ==
  [c \in AllColumns |->
     IF c = "player_id" THEN id[1]
     ELSE IF c = "season" THEN id[2]
     ELSE IF c = "player_name" THEN PlayerName(id[1])
     ELSE IF c = "team_id" THEN "T1"
     ELSE IF c = "match_id" THEN "M" \o ToString(i)
     ELSE line[c]]

RowChoices == Identities \X StatLines

\* the tables of n rows with all columns
TablesOf(n) ==
  { Table(AllColumns, [i \in 1..n |-> MkRow(i, ch[i][1], ch[i][2])]) :
      ch \in [1..n -> RowChoices] }

Tables == UNION { TablesOf(n) : n \in 1..MaxRows }

\* a table without the columns of `gone`
Without(t, gone) ==
  Table(t.cols \ gone, [i \in DOMAIN t.rows |-> Project(t.rows[i], t.cols \ gone)])

\* the columns a deficient input may lack
Droppable == {"player_id", "minutes", "dribble_success_pct"}

DeficientTables ==
  { Without(t, gone) :
      t \in { Table(AllColumns, <<MkRow(1, <<"P1", "S1">>, LineA)>>) },
      gone \in (SUBSET Droppable) \ {{}} }

\* group_by: None is <<>>
GroupBys ==
  { <<>>, <<"player_id">>, <<"player_id", "season">>, <<"season">>,
    <<"match_id">>, <<"player_id", "match_id">> }

(***************************************************************************)
(* _position_bucket, metric_position_weighted.py:66-89, on one cell of the  *)
(* position column.  A label is a string, held as the sequence of its      *)
(* characters so that upper-casing and prefixes are computed, or None.     *)
(***************************************************************************)
\* the longest label drawn
MaxLabel == 3

Missing == [null |-> TRUE, chars |-> <<>>]

Str(chars) == [null |-> FALSE, chars |-> chars]

lowercase == << "r", "c", "b" >>

uppercase == << "R", "C", "B" >>

\* the characters labels are drawn from: the letters of the rules, G and K,
\* and three lower-case letters
Chars ==
  { "S", "T", "C", "F", "W", "L", "R", "A", "M", "D", "B", "G", "K" }
    \cup Range(lowercase)

Labels ==
  {Missing} \cup { Str(s) : s \in UNION { [1..n -> Chars] : n \in 0..MaxLabel } }

\* str.upper() on one character
UpperChar(ch) ==
  IF ch \in Range(lowercase)
  THEN uppercase[CHOOSE i \in DOMAIN lowercase : lowercase[i] = ch]
  ELSE ch

\* Series.fillna("") on one cell
FillNa(label) == IF label.null THEN Str(<<>>) ELSE label

\* the label as it was written
KeepCase(label) == label

\* Series.str.upper() on one cell
StrUpper(label) ==
  Str([i \in DOMAIN label.chars |-> UpperChar(label.chars[i])])

\* p.startswith(prefix)
StartsWith(p, prefix) ==
  Len(p) >= Len(prefix) /\ SubSeq(p, 1, Len(prefix)) = prefix

\* metric_position_weighted.py:70-86
to_bucket(p) ==
  IF StartsWith(p, <<"S", "T">>) \/ StartsWith(p, <<"C", "F">>) \/ p = <<"F", "W">>
  THEN "FW"
  ELSE IF p \in {<<"L", "W">>, <<"R", "W">>} \/ StartsWith(p, <<"A", "M">>)
             \/ p = <<"C", "A", "M">>
  THEN "WG"
  ELSE IF p \in {<<"C", "M">>, <<"D", "M">>, <<"C", "D", "M">>, <<"L", "C", "M">>,
                 <<"R", "C", "M">>}
  THEN "MF"
  ELSE IF p \in {<<"L", "B">>, <<"R", "B">>, <<"L", "W", "B">>, <<"R", "W", "B">>,
                 <<"W", "B">>, <<"F", "B">>}
  THEN "FB"
  ELSE IF p \in {<<"C", "B">>, <<"R", "C", "B">>, <<"L", "C", "B">>}
  THEN "CB"
  ELSE "MF"

(***************************************************************************)
(* The position-weighted scorer, metric_position_weighted.py.  Its _safe,  *)
(* _per90, _zscore and _minutes_multiplier are copies of those of          *)
(* metric.py, and so are the name merge, the standardization and the sort  *)
(* that end compute_pele; the model uses one definition for both.          *)
(***************************************************************************)
\* metric_position_weighted.py:11-37
POSITION_WEIGHTS ==
  [ FW |-> [goals |-> 5, assists |-> 3, xg |-> 5, xa |-> 3, key_passes |-> 3,
            prog_pass |-> 1, prog_carry |-> 4, dribbles |-> 4, turnovers |-> 3,
            pressures |-> 3, tackles_int |-> 1, blocks |-> 1, aerials |-> 3],
    WG |-> [goals |-> 4, assists |-> 5, xg |-> 4, xa |-> 5, key_passes |-> 5,
            prog_pass |-> 3, prog_carry |-> 5, dribbles |-> 5, turnovers |-> 5,
            pressures |-> 3, tackles_int |-> 1, blocks |-> 1, aerials |-> 1],
    MF |-> [goals |-> 3, assists |-> 4, xg |-> 3, xa |-> 4, key_passes |-> 4,
            prog_pass |-> 5, prog_carry |-> 3, dribbles |-> 3, turnovers |-> 5,
            pressures |-> 4, tackles_int |-> 4, blocks |-> 3, aerials |-> 3],
    FB |-> [goals |-> 1, assists |-> 4, xg |-> 1, xa |-> 4, key_passes |-> 4,
            prog_pass |-> 5, prog_carry |-> 4, dribbles |-> 4, turnovers |-> 5,
            pressures |-> 4, tackles_int |-> 5, blocks |-> 3, aerials |-> 3],
    CB |-> [goals |-> 1, assists |-> 1, xg |-> 1, xa |-> 1, key_passes |-> 1,
            prog_pass |-> 3, prog_carry |-> 1, dribbles |-> 1, turnovers |-> 3,
            pressures |-> 5, tackles_int |-> 5, blocks |-> 5, aerials |-> 5] ]

\* metric_position_weighted.py:40-54
BASE_WEIGHTS ==
  [ goals |-> Dec[24, 100], assists |-> Dec[20, 100], xg |-> Dec[10, 100],
    xa |-> Dec[8, 100], key_passes |-> Dec[4, 100], prog_pass |-> Dec[16, 1000],
    prog_carry |-> Dec[12, 1000], dribbles |-> Dec[12, 1000],
    turnovers |-> Dec[2, 100], pressures |-> Dec[12, 1000],
    tackles_int |-> Dec[24, 1000], blocks |-> Dec[16, 1000],
    aerials |-> Dec[1, 100] ]

\* the position weight added to the base magnitude
get_weight_sum(stat, p) ==
  Add[FromInt[POSITION_WEIGHTS[p][stat]], BASE_WEIGHTS[stat]]

\* metric_position_weighted.py:187-190, for one row of bucket p
get_weight(stat, p) == Mul[FromInt[POSITION_WEIGHTS[p][stat]], BASE_WEIGHTS[stat]]

\* metric_position_weighted.py:140-159
pw_required ==
  << "player_id", "match_id", "minutes", "position", "np_goals", "assists",
     "xg", "xa", "key_passes", "progressive_passes", "progressive_carries",
     "successful_dribbles", "turnovers", "pressures_success", "tackles",
     "interceptions", "blocks", "aerials_won" >>

\* metric_position_weighted.py:165-180
pw_rate_stats ==
  << "np_goals", "assists", "xg", "xa", "key_passes", "progressive_passes",
     "progressive_carries", "successful_dribbles", "turnovers",
     "pressures_success", "tackles", "interceptions", "blocks", "aerials_won" >>

\* metric_position_weighted.py:244-261
pw_agg_cols == <<"minutes">> \o pw_rate_stats

pw_p90_cols == { P90(s) : s \in Range(pw_rate_stats) }

\* metric_position_weighted.py:230-235
pw_component_cols ==
  << "pos_bucket", "oc", "dc", "base_score", "min_mult", "pele_raw" >>

\* _position_bucket on one cell
PositionBucket(label) == to_bucket(StrUpper(FillNa(label)).chars)

\* metric_position_weighted.py:160-162
PwAbsent(t) == { i \in DOMAIN pw_required : pw_required[i] \notin t.cols }

PwFirstAbsent(t) ==
  pw_required[CHOOSE i \in PwAbsent(t) : \A j \in PwAbsent(t) : i <= j]

\* metric_position_weighted.py:165-181
PwRates(row) ==
  [s \in Range(pw_rate_stats) |-> Safe[Per90(row, s)]]

\* metric_position_weighted.py:193-203
PwOc(r, p) ==
  LET t1 == Mul[get_weight("goals", p), r["np_goals"]]
      t2 == Add[t1, Mul[get_weight("assists", p), r["assists"]]]
      t3 == Add[t2, Mul[get_weight("xg", p), Sub[r["xg"], r["np_goals"]]]]
      t4 == Add[t3, Mul[get_weight("xa", p), Sub[r["xa"], r["assists"]]]]
      t5 == Add[t4, Mul[get_weight("key_passes", p), r["key_passes"]]]
      t6 == Add[t5, Mul[get_weight("prog_pass", p), r["progressive_passes"]]]
      t7 == Add[t6, Mul[get_weight("prog_carry", p), r["progressive_carries"]]]
      t8 == Add[t7, Mul[get_weight("dribbles", p), r["successful_dribbles"]]]
  IN Sub[t8, Mul[get_weight("turnovers", p), r["turnovers"]]]

\* metric_position_weighted.py:206-211
PwDc(r, p) ==
  LET t1 == Mul[get_weight("pressures", p), r["pressures_success"]]
      t2 == Add[t1, Mul[get_weight("tackles_int", p),
                        Add[r["tackles"], r["interceptions"]]]]
      t3 == Add[t2, Mul[get_weight("blocks", p), r["blocks"]]]
  IN Add[t3, Mul[get_weight("aerials", p), r["aerials_won"]]]

PwOutCols(t) ==
  IdentityCols(t) \cup pw_p90_cols \cup Range(pw_component_cols)

PwStatOf(c) == CHOOSE s \in Range(pw_rate_stats) : P90(s) = c

\* metric_position_weighted.py:164-240: one row of `out`
PwScoreRow(t, row, avg_minutes) ==
  The({ The({ LET base_score == BaseScore(oc, dc)
                  pele_raw == PeleRaw(base_score, min_mult)
              IN [c \in PwOutCols(t) |->
                    IF c \in pw_p90_cols THEN r[PwStatOf(c)]
                    ELSE IF c = "pos_bucket" THEN p
                    ELSE IF c = "oc" THEN oc
                    ELSE IF c = "dc" THEN dc
                    ELSE IF c = "base_score" THEN base_score
                    ELSE IF c = "min_mult" THEN min_mult
                    ELSE IF c = "pele_raw" THEN pele_raw
                    ELSE row[c]] :
                oc \in {PwOc(r, p)},
                dc \in {PwDc(r, p)},
                min_mult \in {MinutesMultiplier(Safe[row["minutes"]], avg_minutes)} }) :
          r \in {PwRates(row)}, p \in {PositionBucket(row["position"])} })

\* metric_position_weighted.py:164-240: `out`
PwScore(t) ==
  The({ Table(PwOutCols(t),
              [i \in DOMAIN t.rows |-> PwScoreRow(t, t.rows[i], avg_minutes)]) :
          avg_minutes \in {AvgMinutes(t)} })

\* the characters of the model in code-point order
char_order ==
  << "A", "B", "C", "D", "F", "G", "K", "L", "M", "R", "S", "T", "W",
     "b", "c", "r" >>

CharRank(ch) == CHOOSE i \in DOMAIN char_order : char_order[i] = ch

RECURSIVE CharsLess(_, _)
\* strings compared as Python compares them
CharsLess(a, b) ==
  IF Len(a) = 0 \/ Len(b) = 0 THEN Len(a) < Len(b)
  ELSE IF a[1] # b[1] THEN CharRank(a[1]) < CharRank(b[1])
  ELSE CharsLess(Tail(a), Tail(b))

\* the label of the group's first row
FirstPosition(rows) == rows[1]["position"]

\* metric_position_weighted.py:275: x.mode().iat[0] if len(x.mode()) else
\* x.iloc[0]; mode() leaves the nulls out and sorts the modes
PositionMode(rows) ==
  LET labels == SelectSeq([i \in DOMAIN rows |-> rows[i]["position"]],
                          LAMBDA l : ~l.null)
      Count(l) == Cardinality({ i \in DOMAIN labels : labels[i] = l })
      modes == { l \in Range(labels) : \A o \in Range(labels) : Count(o) <= Count(l) }
  IN IF modes = {} THEN rows[1]["position"]
     ELSE CHOOSE l \in modes :
            \A o \in modes \ {l} : CharsLess(l.chars, o.chars)

\* metric_position_weighted.py:262
PwPresent(t) == { c \in Range(pw_agg_cols) : c \in t.cols }

\* metric_position_weighted.py:266-283: the columns of `rep`
PwRepCols(t, group_cols) ==
  Range(group_cols) \cup PwPresent(t) \cup {"position"}
    \cup (IF CarriesName(t, group_cols) THEN {"player_name"} ELSE {})
    \cup {"match_id"}

\* the groups' positions from the last group to the first
PosAggReversed(t, group_cols) ==
  LET keys == GroupKeys(t, group_cols)
  IN [i \in DOMAIN keys |->
        PositionMode(GroupRows(t, group_cols, keys[Len(keys) + 1 - i]))]

\* metric_position_weighted.py:274-276: pos_agg, one label per group in the
\* order of the sorted group keys, the index dropped
PosAgg(t, group_cols) ==
  LET keys == GroupKeys(t, group_cols)
  IN [i \in DOMAIN keys |-> PositionMode(GroupRows(t, group_cols, keys[i]))]

\* metric_position_weighted.py:266-283: the i-th row of `rep`; the position
\* and the name are assigned by place
PwRepRow(t, group_cols, keys, pos_agg, i) ==
  The({ [c \in PwRepCols(t, group_cols) |->
           IF c = "match_id" THEN "__aggregate__"
           ELSE IF c = "player_name" /\ CarriesName(t, group_cols)
                THEN NameMode(rows)
           ELSE IF c = "position" THEN pos_agg[i]
           ELSE IF c \in Range(group_cols)
                THEN keys[i][CHOOSE j \in DOMAIN group_cols : group_cols[j] = c]
           ELSE GroupSum(rows, c)] :
          rows \in {GroupRows(t, group_cols, keys[i])} })

\* metric_position_weighted.py:266-283: `rep`
PwAggregated(t, group_cols) ==
  The({ Table(PwRepCols(t, group_cols),
              [i \in DOMAIN keys |-> PwRepRow(t, group_cols, keys, pos_agg, i)]) :
          keys \in {GroupKeys(t, group_cols)},
          pos_agg \in {PosAgg(t, group_cols)} })

\* metric_position_weighted.py:287-289
PwResultCols(tmp, group_cols) ==
  Range(group_cols) \cup Range(pw_component_cols)
    \cup { c \in tmp.cols : c \in pw_p90_cols }

(***************************************************************************)
(* The state: the stack of compute_pele calls in progress, and how the     *)
(* outermost call ended.                                                   *)
(***************************************************************************)
VARIABLES
  arg,       \* the arguments of the outermost call, and the scorer called
  calls,     \* the frames, outermost first
  returned,  \* the table the outermost call returned
  raised,    \* the exception that left the outermost call
  done,      \* "running", "returned" or "raised" ("idle": no call was made)
  bucketing  \* a run of _position_bucket on one cell (pc "idle": none)

vars == <<arg, calls, returned, raised, done, bucketing>>

NoBucketing ==
  [pc |-> "idle", position |-> Missing, pos |-> Str(<<>>), pos_bucket |-> "none"]

NoError == [type |-> "none", col |-> "none", depth |-> 0, pc |-> "none"]

\* a frame at its entry
Frame(df, group_by, standardize) ==
  [df |-> df, group_by |-> group_by, standardize |-> standardize,
   pc |-> "validate", out |-> NoTable, rep |-> NoTable, tmp |-> NoTable,
   result |-> NoTable]

Init ==
  /\ arg \in [scorer : {"fixed"}, df : Tables \cup DeficientTables,
               group_by : GroupBys, standardize : BOOLEAN]
  /\ calls = <<Frame(arg.df, arg.group_by, arg.standardize)>>
  /\ returned = NoTable
  /\ raised = NoError
  /\ done = "running"
  /\ bucketing = NoBucketing

Top == calls[Len(calls)]

\* the frames sharing their locals: a write lands in every frame
SetEvery(f) == [i \in DOMAIN calls |-> f]

SetTop(f) == [calls EXCEPT ![Len(calls)] = f]

Running == done = "running" /\ Len(calls) > 0

\* an exception nobody catches: every frame is left
Raise(type, col) ==
  /\ raised' = [type |-> type, col |-> col, depth |-> Len(calls), pc |-> Top.pc]
  /\ calls' = <<>>
  /\ done' = "raised"
  /\ UNCHANGED <<arg, returned, bucketing>>

Goto(f) ==
  /\ calls' = SetTop(f)
  /\ UNCHANGED <<arg, returned, raised, done, bucketing>>

\* where a frame goes once its table is final
AfterResult(f) == IF f.standardize THEN "standardize" ELSE "return"

\* a nested call that groups by player_id again
Regrouping(rep) == Frame(rep, <<"player_id">>, FALSE)

\* metric.py:276: compute_pele(rep, group_by=None, standardize=False)
NestedCall(rep) == Frame(rep, <<>>, FALSE)

\* metric.py:126-128
Validate ==
  /\ Running
  /\ Top.pc = "validate"
  /\ IF Absent(Top.df) # {}
     THEN Raise("ValueError", FirstAbsent(Top.df))
     ELSE Goto([Top EXCEPT !.pc = "score"])

\* metric.py:130-221
ScoreRows ==
  /\ Running
  /\ Top.pc = "score"
  /\ Goto([Top EXCEPT !.out = Score(Top.df),
                      !.pc = IF Len(Top.group_by) > 0 THEN "aggregate"
                             ELSE AfterResult(Top)])

\* metric.py:223-276: build rep and call compute_pele(rep, None, False)
Aggregate ==
  /\ Running
  /\ Top.pc = "aggregate"
  /\ \E rep \in {Aggregated(Top.df, Top.group_by)} :
        calls' = SetTop([Top EXCEPT !.rep = rep, !.pc = "select"])
                   \o <<NestedCall(rep)>>
  /\ UNCHANGED <<arg, returned, raised, done, bucketing>>

\* metric.py:277-279: KeyError when a group column is no column of tmp
Select ==
  /\ Running
  /\ Top.pc = "select"
  /\ IF Range(Top.group_by) \subseteq Top.tmp.cols
     THEN \E cols \in {ResultCols(Top.tmp, Top.group_by)} :
             Goto([Top EXCEPT
                     !.result = Table(cols, [i \in DOMAIN Top.tmp.rows |->
                                               Project(Top.tmp.rows[i], cols)]),
                     !.pc = "merge"])
     ELSE Raise("KeyError",
                CHOOSE c \in Range(Top.group_by) : c \notin Top.tmp.cols)

\* metric.py:281-287
MergeNames ==
  /\ Running
  /\ Top.pc = "merge"
  /\ Goto([Top EXCEPT !.result = Merged(Top.df, Top.group_by, Top.result),
                      !.pc = AfterResult(Top)])

\* metric.py:289-290 and 295-296
Standardize ==
  /\ Running
  /\ Top.pc = "standardize"
  /\ IF Len(Top.group_by) > 0
     THEN Goto([Top EXCEPT !.result = Standardized(Top.result), !.pc = "return"])
     ELSE Goto([Top EXCEPT !.out = Standardized(Top.out), !.pc = "return"])

\* the value of a return statement reaches the caller, or ends the call
Deliver(value) ==
  IF Len(calls) > 1
  THEN /\ calls' = [SubSeq(calls, 1, Len(calls) - 1)
                      EXCEPT ![Len(calls) - 1].tmp = value]
       /\ UNCHANGED <<arg, returned, raised, done, bucketing>>
  ELSE /\ calls' = <<>>
       /\ returned' = value
       /\ done' = "returned"
       /\ UNCHANGED <<arg, raised, bucketing>>

\* metric.py:292 (grouped: sorted) and 297 (row level: out as it is)
Return ==
  /\ Running
  /\ Top.pc = "return"
  /\ IF Len(Top.group_by) > 0
     THEN \E rows \in SortedOrders(Top.result) :
             Deliver(Table(Top.result.cols, rows))
     ELSE Deliver(Top.out)

Next ==
  \/ Validate
  \/ ScoreRows
  \/ Aggregate
  \/ Select
  \/ MergeNames
  \/ Standardize
  \/ Return

Spec == Init /\ [][Next]_vars

(***************************************************************************)
(* Row-level calls with standardize on populations of up to MaxPop rows.   *)
(***************************************************************************)
\* 90 minutes, three goals, an assist and two key passes
LineH ==
  StatLine([minutes |-> FromInt[90], np_goals |-> FromInt[3],
            assists |-> FromInt[1], key_passes |-> FromInt[2]])

Populations ==
  { Table(AllColumns, [i \in DOMAIN line |-> MkRow(i, <<"P1", "S1">>, line[i])]) :
      line \in UNION { [1..n -> {LineA, LineH, LineZ}] : n \in 1..MaxPop } }

InitRowLevel ==
  /\ arg \in [scorer : {"fixed"}, df : Populations, group_by : {<<>>},
               standardize : {TRUE}]
  /\ calls = <<Frame(arg.df, arg.group_by, arg.standardize)>>
  /\ returned = NoTable
  /\ raised = NoError
  /\ done = "running"
  /\ bucketing = NoBucketing

NextRowLevel ==
  \/ Validate
  \/ ScoreRows
  \/ Standardize
  \/ Return

SpecRowLevel == InitRowLevel /\ [][NextRowLevel]_vars

(***************************************************************************)
(* _position_bucket as the steps of its body, on one label.                *)
(***************************************************************************)
NoArg ==
  [scorer |-> "none", df |-> NoTable, group_by |-> <<>>, standardize |-> FALSE]

InitPos ==
  /\ arg = NoArg
  /\ calls = <<>>
  /\ returned = NoTable
  /\ raised = NoError
  /\ done = "idle"
  /\ bucketing \in { [NoBucketing EXCEPT !.pc = "upper", !.position = l] :
                        l \in Labels }

\* metric_position_weighted.py:68
Upper ==
  /\ bucketing.pc = "upper"
  /\ bucketing' = [bucketing EXCEPT !.pos = StrUpper(FillNa(bucketing.position)),
                                     !.pc = "map"]
  /\ UNCHANGED <<arg, calls, returned, raised, done>>

\* metric_position_weighted.py:89
MapBucket ==
  /\ bucketing.pc = "map"
  /\ bucketing' = [bucketing EXCEPT !.pos_bucket = to_bucket(bucketing.pos.chars),
                                     !.pc = "done"]
  /\ UNCHANGED <<arg, calls, returned, raised, done>>

NextPos ==
  \/ Upper
  \/ MapBucket

SpecPos == InitPos /\ [][NextPos]_vars

(***************************************************************************)
(* Calls of the position-weighted compute_pele.                            *)
(***************************************************************************)
PwColumns == Range(pw_required) \cup {"player_name"}

\* a stat line of the position-weighted scorer
PwStatLine(given) ==
  [c \in Range(pw_agg_cols) |-> IF c \in DOMAIN given THEN given[c] ELSE Zero]

\* 90 minutes, a goal from 0.8 xG, an aerial duel won
PwLineA ==
  PwStatLine([minutes |-> FromInt[90], np_goals |-> FromInt[1],
              xg |-> Dec[8, 10], aerials_won |-> FromInt[1]])

\* 45 minutes, an assist, two tackles, three successful pressures
PwLineB ==
  PwStatLine([minutes |-> FromInt[45], assists |-> FromInt[1],
              tackles |-> FromInt[2], pressures_success |-> FromInt[3]])

\* a striker with the first line; a centre-back written in lower case and a
\* player without a label, both with the second line
PwProfiles ==
  { <<Str(<<"S", "T">>), PwLineA>>, <<Str(<<"r", "c", "b">>), PwLineB>>,
    <<Missing, PwLineB>> }

PwPlayers == {"P1", "P2"}

\* the i-th row of an input table
PwMkRow(i, pid, label, line) ==
  [c \in PwColumns |->
     IF c = "player_id" THEN pid
     ELSE IF c = "player_name" THEN PlayerName(pid)
     ELSE IF c = "match_id" THEN "M" \o ToString(i)
     ELSE IF c = "position" THEN label
     ELSE line[c]]

PwRowChoices == { <<p, pr[1], pr[2]>> : p \in PwPlayers, pr \in PwProfiles }

PwTablesOf(n) ==
  { Table(PwColumns, [i \in 1..n |-> PwMkRow(i, ch[i][1], ch[i][2], ch[i][3])]) :
      ch \in [1..n -> PwRowChoices] }

PwTables == UNION { PwTablesOf(n) : n \in 1..MaxRows }

PwDeficientTables ==
  { Without(t, gone) :
      t \in { Table(PwColumns, <<PwMkRow(1, "P1", Str(<<"S", "T">>), PwLineA)>>) },
      gone \in { {"position"}, {"minutes", "blocks"} } }

PwGroupBys == { <<>>, <<"player_id">> }

\* a frame of the position-weighted compute_pele at its entry
PwFrame(df, group_by, standardize) ==
  [Frame(df, group_by, standardize) EXCEPT !.pc = "pw_validate"]

\* metric_position_weighted.py:286
PwNestedCall(rep) == PwFrame(rep, <<>>, FALSE)

InitPW ==
  /\ arg \in [scorer : {"position"}, df : PwTables \cup PwDeficientTables,
               group_by : PwGroupBys, standardize : BOOLEAN]
  /\ calls = <<PwFrame(arg.df, arg.group_by, arg.standardize)>>
  /\ returned = NoTable
  /\ raised = NoError
  /\ done = "running"
  /\ bucketing = NoBucketing

\* metric_position_weighted.py:160-162
PwValidate ==
  /\ Running
  /\ Top.pc = "pw_validate"
  /\ IF PwAbsent(Top.df) # {}
     THEN Raise("ValueError", PwFirstAbsent(Top.df))
     ELSE Goto([Top EXCEPT !.pc = "pw_score"])

\* metric_position_weighted.py:164-240
PwScoreRows ==
  /\ Running
  /\ Top.pc = "pw_score"
  /\ Goto([Top EXCEPT !.out = PwScore(Top.df),
                      !.pc = IF Len(Top.group_by) > 0 THEN "pw_aggregate"
                             ELSE AfterResult(Top)])

\* metric_position_weighted.py:242-286: build rep and call
\* compute_pele(rep, group_by=None, standardize=False)
PwAggregate ==
  /\ Running
  /\ Top.pc = "pw_aggregate"
  /\ \E rep \in {PwAggregated(Top.df, Top.group_by)} :
        calls' = SetTop([Top EXCEPT !.rep = rep, !.pc = "pw_select"])
                   \o <<PwNestedCall(rep)>>
  /\ UNCHANGED <<arg, returned, raised, done, bucketing>>

\* metric_position_weighted.py:287-289
PwSelect ==
  /\ Running
  /\ Top.pc = "pw_select"
  /\ IF Range(Top.group_by) \subseteq Top.tmp.cols
     THEN \E cols \in {PwResultCols(Top.tmp, Top.group_by)} :
             Goto([Top EXCEPT
                     !.result = Table(cols, [i \in DOMAIN Top.tmp.rows |->
                                               Project(Top.tmp.rows[i], cols)]),
                     !.pc = "merge"])
     ELSE Raise("KeyError",
                CHOOSE c \in Range(Top.group_by) : c \notin Top.tmp.cols)

\* the name merge, the standardization and the return are those of metric.py
NextPW ==
  \/ PwValidate
  \/ PwScoreRows
  \/ PwAggregate
  \/ PwSelect
  \/ MergeNames
  \/ Standardize
  \/ Return

SpecPW == InitPW /\ [][NextPW]_vars

(***************************************************************************)
(* Calls of either scorer.                                                 *)
(***************************************************************************)
InitBoth == Init \/ InitPW

NextBoth ==
  \/ Validate
  \/ ScoreRows
  \/ Aggregate
  \/ Select
  \/ PwValidate
  \/ PwScoreRows
  \/ PwAggregate
  \/ PwSelect
  \/ MergeNames
  \/ Standardize
  \/ Return

SpecBoth == InitBoth /\ [][NextBoth]_vars

(***************************************************************************)
(* Standardized and unstandardized calls on populations of up to MaxPop    *)
(* rows of 90 minutes that differ in their key passes, every row a group   *)
(* of its own or the first two rows one group.                             *)
(***************************************************************************)
\* 90 minutes and k key passes
KeyPassLine(k) ==
  StatLine([minutes |-> FromInt[90], key_passes |-> FromInt[k]])

KeyPassLines == { KeyPassLine(1), KeyPassLine(3), KeyPassLine(5) }

group_identities ==
  << <<"P1", "S1">>, <<"P1", "S2">>, <<"P2", "S1">>, <<"P2", "S2">> >>

\* the identity of the i-th row; with `shared` the second row is of the
\* first row's group
IdentityAt(i, shared) ==
  IF shared /\ i = 2 THEN group_identities[1]
  ELSE IF i <= Len(group_identities) THEN group_identities[i]
  ELSE group_identities[Len(group_identities)]

StdPopulations ==
  { Table(AllColumns,
          [i \in DOMAIN line |-> MkRow(i, IdentityAt(i, shared), line[i])]) :
      line \in UNION { [1..n -> KeyPassLines] : n \in 1..MaxPop },
      shared \in BOOLEAN }

InitStd ==
  /\ arg \in [scorer : {"fixed"}, df : StdPopulations,
               group_by : { <<>>, <<"player_id", "season">> },
               standardize : BOOLEAN]
  /\ calls = <<Frame(arg.df, arg.group_by, arg.standardize)>>
  /\ returned = NoTable
  /\ raised = NoError
  /\ done = "running"
  /\ bucketing = NoBucketing

SpecStd == InitStd /\ [][Next]_vars

(***************************************************************************)
(* One player's season: up to MaxPop matches of player P1, whose name is   *)
(* spelled in one way throughout or differently in the first match, and    *)
(* whose stat lines carry percentages and null cells.                      *)
(***************************************************************************)
\* 90 minutes, a key pass, 83.6 % of the passes completed
SeasonFull ==
  StatLine([minutes |-> FromInt[90], key_passes |-> FromInt[1],
            pass_completion_pct |-> Dec[836, 10]])

\* 45 minutes, 83.6 % of the passes completed, the assists not recorded
SeasonHalf ==
  StatLine([minutes |-> FromInt[45], assists |-> NaN,
            pass_completion_pct |-> Dec[836, 10]])

\* 90 minutes, a key pass, the pass completion not recorded
SeasonNoPct ==
  StatLine([minutes |-> FromInt[90], key_passes |-> FromInt[1],
            pass_completion_pct |-> NaN])

\* an unused substitute: no minutes, 50 % entered for the pass completion
SeasonBench ==
  StatLine([minutes |-> Zero, pass_completion_pct |-> FromInt[50]])

SeasonLines == {SeasonFull, SeasonHalf, SeasonNoPct, SeasonBench}

\* the name in the i-th match
SeasonName(i, respelled) == IF respelled /\ i = 1 THEN "Bob" ELSE "Ann"

Seasons ==
  { Table(AllColumns,
          [i \in DOMAIN line |->
             [MkRow(i, <<"P1", "S1">>, line[i])
                EXCEPT !["player_name"] = SeasonName(i, respelled)]]) :
      line \in UNION { [1..n -> SeasonLines] : n \in 1..MaxPop },
      respelled \in BOOLEAN }

InitSeason ==
  /\ arg \in [scorer : {"fixed"}, df : Seasons,
               group_by : { <<>>, <<"player_id">>, <<"player_id", "season">> },
               standardize : BOOLEAN]
  /\ calls = <<Frame(arg.df, arg.group_by, arg.standardize)>>
  /\ returned = NoTable
  /\ raised = NoError
  /\ done = "running"
  /\ bucketing = NoBucketing

SpecSeason == InitSeason /\ [][Next]_vars

(***************************************************************************)
(* Calls of either scorer that run on: once a call has started, the        *)
(* interpreter takes its next statement.  The calls are those of SpecStd   *)
(* and of SpecPW.                                                          *)
(***************************************************************************)
InitFair == InitStd \/ InitPW

SpecFair == InitFair /\ [][NextBoth]_vars /\ WF_vars(NextBoth)

(***************************************************************************)
(* The properties of compute_pele.                                         *)
(***************************************************************************)
\* the call was given every required column
ValidInput == Absent(arg.df) = {}

Grouped == Len(arg.group_by) > 0

\* the input rows behind the i-th returned row: the row itself at row level,
\* the rows of its group key in a grouped call
Behind(i) ==
  IF Grouped
  THEN GroupRows(arg.df, arg.group_by, KeyOf(returned.rows[i], arg.group_by))
  ELSE <<arg.df.rows[i]>>

\* the distinct group keys of the input
InputKeys == { KeyOf(arg.df.rows[i], arg.group_by) : i \in DOMAIN arg.df.rows }

\* C1: a returned row whose input minutes are 0 (a row, or a group whose rows
\* all have 0 minutes) has every _p90 rate 0, min_mult 0 and pele_raw 0,
\* whatever the rest of the population is.
C1_ZeroMinutesScoreZero ==
  done = "returned" =>
    \A i \in DOMAIN returned.rows :
      (\A row \in Range(Behind(i)) : IsZero(row["minutes"])) =>
        /\ \A c \in p90_cols : returned.rows[i][c] = Zero
        /\ returned.rows[i]["min_mult"] = Zero
        /\ returned.rows[i]["pele_raw"] = Zero

\* C2: grouping by match_id, which identifies each row, completes and gives
\* every input row the rates and components of the row-level computation.
C2_UniqueKeyMatchesRowLevel ==
  (ValidInput /\ arg.group_by = <<"match_id">>) =>
    /\ done # "raised"
    /\ done = "returned" =>
         /\ Len(returned.rows) = Len(arg.df.rows)
         /\ \A i \in DOMAIN arg.df.rows :
              \E j \in DOMAIN returned.rows :
                 /\ returned.rows[j]["match_id"] = arg.df.rows[i]["match_id"]
                 /\ \A c \in p90_cols \cup Range(component_cols) :
                      returned.rows[j][c] = Score(arg.df).rows[i][c]

\* C3: a grouped call on a valid table returns exactly one row per distinct
\* group key of the input, and the output carries the group-key columns.
C3_OneRowPerKey ==
  (ValidInput /\ Grouped) =>
    /\ done # "raised"
    /\ done = "returned" =>
         /\ Range(arg.group_by) \subseteq returned.cols
         /\ \A j \in DOMAIN returned.rows :
              KeyOf(returned.rows[j], arg.group_by) \in InputKeys
         /\ \A k \in InputKeys :
              Cardinality({ j \in DOMAIN returned.rows :
                              KeyOf(returned.rows[j], arg.group_by) = k }) = 1

\* C7: a call whose input has every required column never raises.
C7_ValidInputCompletes ==
  ValidInput => done # "raised"

\* C8: grouped output is in descending pele_raw order (each row >= the next),
\* and rows of equal pele_raw stay in group-key order.
C8_SortedDescendingStable ==
  (done = "returned" /\ Grouped) =>
    \A i, j \in DOMAIN returned.rows :
      j = i + 1 =>
        /\ Leq[returned.rows[j]["pele_raw"], returned.rows[i]["pele_raw"]]
        /\ returned.rows[i]["pele_raw"] = returned.rows[j]["pele_raw"] =>
             KeyLess(KeyOf(returned.rows[i], arg.group_by),
                     KeyOf(returned.rows[j], arg.group_by))

\* the exact sum of the finite cells of a column over some rows, rounded once
RECURSIVE IntSum(_)
IntSum(s) == IF s = <<>> THEN 0 ELSE Head(s) + IntSum(Tail(s))

ExactTotal(rows, c) ==
  The({ IF nz = <<>> THEN Zero
        ELSE The({ Round[IntSum([i \in DOMAIN nz |-> nz[i].m * 2^(nz[i].e - lo)]), lo] :
                     lo \in {CHOOSE e \in { nz[i].e : i \in DOMAIN nz } :
                               \A i \in DOMAIN nz : e <= nz[i].e} }) :
          nz \in {SelectSeq([i \in DOMAIN rows |-> rows[i][c]],
                            LAMBDA x : IsNum(x) /\ x.m # 0)} })

\* (sum of the stat) / (sum of the minutes / 90), and 0 for no minutes
RateOfTotals(rows, stat) ==
  IF IsZero(ExactTotal(rows, "minutes")) THEN Zero
  ELSE Div[ExactTotal(rows, stat), Div[ExactTotal(rows, "minutes"), FromInt[90]]]

\* two rows of P1: 90 minutes with a goal, 45 minutes with an assist
TwoMatchesOfP1 ==
  /\ Len(arg.df.rows) = 2
  /\ \A i \in {1, 2} : arg.df.rows[i]["player_id"] = "P1"
  /\ arg.df.rows[1]["minutes"] = FromInt[90]
  /\ arg.df.rows[1]["np_goals"] = FromInt[1]
  /\ arg.df.rows[1]["assists"] = Zero
  /\ arg.df.rows[2]["minutes"] = FromInt[45]
  /\ arg.df.rows[2]["np_goals"] = Zero
  /\ arg.df.rows[2]["assists"] = FromInt[1]

\* the mean of the two rows' own rates of a stat
RowRateAverage(stat) ==
  Div[Add[Rates(arg.df.rows[1])[stat], Rates(arg.df.rows[2])[stat]], FromInt[2]]

\* C4: in grouped output each rate is (sum of the stat) / (sum of minutes / 90),
\* 0 for a group without minutes; for P1's two matches grouped by player_id
\* both np_goals_p90 and assists_p90 are 2/3, not the row-rate averages 0.5, 1.0.
C4_RatesFromTotals ==
  (done = "returned" /\ Grouped) =>
    /\ \A i \in DOMAIN returned.rows :
         \E rows \in {Behind(i)} :
            \A s \in Range(rate_stats) :
               returned.rows[i][P90(s)] = RateOfTotals(rows, s)
    /\ (TwoMatchesOfP1 /\ arg.group_by = <<"player_id">>) =>
         /\ returned.rows[1]["np_goals_p90"] = Dec[2, 3]
         /\ returned.rows[1]["assists_p90"] = Dec[2, 3]
         /\ RowRateAverage("np_goals") = Dec[1, 2]
         /\ RowRateAverage("assists") = FromInt[1]
         /\ Dec[2, 3] \notin {Dec[1, 2], FromInt[1]}

C4_Witness ==
  /\ done = "returned"
  /\ TwoMatchesOfP1
  /\ arg.group_by = <<"player_id">>
  /\ Len(returned.rows) = 1
  /\ returned.rows[1]["np_goals_p90"] = Dec[2, 3]

\* the rows of one key as a table of their own
RowsOfKey(key) ==
  Table(arg.df.cols,
        SelectSeq(arg.df.rows, LAMBDA row : KeyOf(row, arg.group_by) = key))

\* the one row computed from the rows of a key alone
Alone(key) == Score(Aggregated(RowsOfKey(key), arg.group_by)).rows[1]

\* C5: grouped by (player_id, season), the rates of a key's row are those
\* computed from that key's rows alone; the other groups' rows change nothing.
C5_NoCrossGroupLeakage ==
  (done = "returned" /\ arg.group_by = <<"player_id", "season">>) =>
    \A i \in DOMAIN returned.rows :
      \E alone \in {Alone(KeyOf(returned.rows[i], arg.group_by))} :
         \A c \in p90_cols : returned.rows[i][c] = alone[c]

C5_Witness ==
  /\ done = "returned"
  /\ arg.group_by = <<"player_id", "season">>
  /\ Len(arg.df.rows) = 2
  /\ arg.df.rows[1]["player_id"] = arg.df.rows[2]["player_id"]
  /\ arg.df.rows[1]["season"] # arg.df.rows[2]["season"]
  /\ Len(returned.rows) = 2
  /\ \E i \in {1, 2} : ~IsZero(returned.rows[i]["np_goals_p90"])

\* C6: with a required column absent the call raises ValueError naming the
\* first absent column of the required list, at the validation of the
\* outermost call, before any table is computed and with nothing returned,
\* whatever group_by and standardize are.
C6_MissingColumnFailsFast ==
  ~ValidInput =>
    /\ done # "returned"
    /\ returned = NoTable
    /\ \A i \in DOMAIN calls :
         /\ calls[i].pc = "validate"
         /\ calls[i].out = NoTable
         /\ calls[i].rep = NoTable
    /\ Len(calls) <= 1
    /\ done = "raised" =>
         /\ raised.type = "ValueError"
         /\ raised.depth = 1
         /\ raised.pc = "validate"
         /\ raised.col \notin arg.df.cols
         /\ \E i \in DOMAIN required :
              /\ required[i] = raised.col
              /\ \A j \in 1..(i - 1) : required[j] \in arg.df.cols

C6_Witness ==
  /\ done = "raised"
  /\ raised.type = "ValueError"
  /\ raised.col = "minutes"
  /\ "dribble_success_pct" \notin arg.df.cols
  /\ Grouped
  /\ arg.standardize

\* zero or undefined variance: one row, or the same pele_raw (NaN included)
\* in every returned row
DegeneratePopulation ==
  \A i, j \in DOMAIN returned.rows :
     returned.rows[i]["pele_raw"] = returned.rows[j]["pele_raw"]

\* C9: with standardize on, a returned population of zero or undefined
\* variance has pele_100 exactly 50 in every row.
C9_DegeneratePopulationScores50 ==
  (done = "returned" /\ arg.standardize /\ DegeneratePopulation) =>
    \A i \in DOMAIN returned.rows : returned.rows[i]["pele_100"] = FromInt[50]

(***************************************************************************)
(* The properties of _position_bucket.                                     *)
(***************************************************************************)
Buckets == {"FW", "WG", "MF", "FB", "CB"}

\* the upper-case labels the rules of to_bucket name
Named(p) ==
  \/ \E pre \in {<<"S", "T">>, <<"C", "F">>, <<"A", "M">>} :
        Len(p) >= 2 /\ <<p[1], p[2]>> = pre
  \/ p \in { <<"F", "W">>, <<"L", "W">>, <<"R", "W">>, <<"C", "A", "M">>,
             <<"C", "M">>, <<"D", "M">>, <<"C", "D", "M">>, <<"L", "C", "M">>,
             <<"R", "C", "M">>, <<"L", "B">>, <<"R", "B">>, <<"L", "W", "B">>,
             <<"R", "W", "B">>, <<"W", "B">>, <<"F", "B">>, <<"C", "B">>,
             <<"R", "C", "B">>, <<"L", "C", "B">> }

\* C10: every label, in any case or missing, gets exactly one of the five
\* buckets; RCB gets CB, CAM gets WG, and GK, every other label no rule names
\* and the missing label get MF.
C10_BucketIsTotal ==
  bucketing.pc = "done" =>
    /\ bucketing.pos_bucket \in Buckets
    /\ bucketing.position \in { Str(<<"R", "C", "B">>), Str(<<"r", "c", "b">>),
                                Str(<<"R", "c", "b">>) }
         => bucketing.pos_bucket = "CB"
    /\ bucketing.position = Str(<<"C", "A", "M">>) => bucketing.pos_bucket = "WG"
    /\ bucketing.position = Str(<<"G", "K">>) => bucketing.pos_bucket = "MF"
    /\ bucketing.position = Missing => bucketing.pos_bucket = "MF"
    /\ ( /\ ~bucketing.position.null
         /\ Range(bucketing.position.chars) \cap Range(lowercase) = {}
         /\ ~Named(bucketing.position.chars) )
         => bucketing.pos_bucket = "MF"

C10_Witness ==
  /\ bucketing.pc = "done"
  /\ bucketing.position = Str(<<"r", "c", "b">>)
  /\ bucketing.pos_bucket = "CB"

\* C11: in every returned row, row-level or grouped, of either scorer,
\* base_score is oc + dc and pele_raw is base_score * min_mult, computed from
\* the oc, dc and min_mult of that same row (a missing product is reported
\* as missing).
C11_ScoreIdentities ==
  done = "returned" =>
    \A i \in DOMAIN returned.rows :
      \E row \in {returned.rows[i]} :
         /\ row["base_score"] = Add[row["oc"], row["dc"]]
         /\ row["pele_raw"] = Mul[row["base_score"], row["min_mult"]]

\* a grouped call of the position-weighted scorer returned a row with a
\* defensive part and a multiplier that changes the score
C11_Witness ==
  /\ done = "returned"
  /\ arg.scorer = "position"
  /\ Grouped
  /\ \E i \in DOMAIN returned.rows :
        /\ ~IsZero(returned.rows[i]["dc"])
        /\ ~IsZero(returned.rows[i]["oc"])
        /\ IsNum(returned.rows[i]["min_mult"])
        /\ returned.rows[i]["pele_raw"] # returned.rows[i]["base_score"]

\* the unsorted result of a call, from its arguments alone
Unsorted(a) ==
  The({ The({ The({ IF a.standardize THEN Standardized(merged) ELSE merged :
                      merged \in { IF Len(a.group_by) = 0 THEN out
                                   ELSE Merged(a.df, a.group_by,
                                               Table(cols, [i \in DOMAIN tmp.rows |->
                                                              Project(tmp.rows[i], cols)])) } }) :
                cols \in { IF Len(a.group_by) = 0 THEN {}
                           ELSE IF a.scorer = "fixed"
                                THEN ResultCols(tmp, a.group_by)
                                ELSE PwResultCols(tmp, a.group_by) } }) :
          out \in { IF a.scorer = "fixed" THEN Score(a.df) ELSE PwScore(a.df) },
          tmp \in { IF Len(a.group_by) = 0 THEN NoTable
                    ELSE IF a.scorer = "fixed"
                         THEN Score(Aggregated(a.df, a.group_by))
                         ELSE PwScore(PwAggregated(a.df, a.group_by)) } })

RawColumn == Column(Unsorted(arg), "pele_raw")

\* C13 as stated: pele_100 is present exactly when standardize is set, and
\* when the deviation of the returned population is not zero a returned row
\* has pele_100 > 50 exactly when its pele_raw exceeds the population mean,
\* and pele_100 orders the returned rows exactly as pele_raw orders them.
C13_Pele100FollowsPeleRaw ==
  done = "returned" =>
    /\ ("pele_100" \in returned.cols) = arg.standardize
    /\ arg.standardize =>
         \E mu \in {Mean(RawColumn)}, sigma \in {Std0(RawColumn)} :
            (IsNum(sigma) /\ ~IsZero(sigma)) =>
              /\ \A i \in DOMAIN returned.rows :
                   Less[FromInt[50], returned.rows[i]["pele_100"]]
                     = Less[mu, returned.rows[i]["pele_raw"]]
              /\ \A i, j \in DOMAIN returned.rows :
                   Less[returned.rows[i]["pele_100"], returned.rows[j]["pele_100"]]
                     = Less[returned.rows[i]["pele_raw"], returned.rows[j]["pele_raw"]]

\* C13, amended: pele_100 is present exactly when standardize is set; it is
\* 50.0 + 10.0 * ((pele_raw - mean) / std) in floating point, mean and
\* population std taken over the pele_raw of the returned rows (the groups of
\* a grouped call), and 50 for every row when std is 0 or missing.  A row
\* above 50 has a pele_raw above the computed mean and a row below 50 one
\* below it, and pele_100 never inverts the order of pele_raw; a row whose
\* pele_raw is within rounding of the mean may score exactly 50.
C13_Pele100Standardizes ==
  done = "returned" =>
    /\ ("pele_100" \in returned.cols) = arg.standardize
    /\ arg.standardize =>
         \E raw \in {RawColumn} :
           \E mu \in {Mean(raw)}, sigma \in {Std0(raw)} :
             /\ \E p \in Perms(Len(returned.rows)) :
                   raw = [i \in DOMAIN returned.rows |->
                            returned.rows[p[i]]["pele_raw"]]
             /\ \A i \in DOMAIN returned.rows :
                  \E x \in {returned.rows[i]["pele_raw"]},
                     p100 \in {returned.rows[i]["pele_100"]} :
                     IF IsZero(sigma) \/ IsNaN(sigma)
                     THEN p100 = FromInt[50]
                     ELSE /\ p100 = Pele100(Div[Sub[x, mu], sigma])
                          /\ Less[FromInt[50], p100] => Less[mu, x]
                          /\ Less[p100, FromInt[50]] => Less[x, mu]
             /\ \A i, j \in DOMAIN returned.rows :
                  Less[returned.rows[i]["pele_raw"], returned.rows[j]["pele_raw"]]
                    => Leq[returned.rows[i]["pele_100"], returned.rows[j]["pele_100"]]

\* a grouped, standardized call returned three groups, one of them scored
\* exactly 50 although its pele_raw is not the computed mean
C13_Witness ==
  /\ done = "returned"
  /\ Grouped
  /\ arg.standardize
  /\ Len(returned.rows) = 3
  /\ \E i \in DOMAIN returned.rows :
        /\ returned.rows[i]["pele_100"] = FromInt[50]
        /\ returned.rows[i]["pele_raw"] # Mean(RawColumn)
  /\ \E i \in DOMAIN returned.rows :
        Less[FromInt[50], returned.rows[i]["pele_100"]]

\* the names that no other name of the rows outnumbers
MostFrequentNames(rows) ==
  LET names == [i \in DOMAIN rows |-> rows[i]["player_name"]]
      Count(n) == Cardinality({ i \in DOMAIN names : names[i] = n })
  IN { n \in Range(names) : \A o \in Range(names) : Count(o) <= Count(n) }

\* C14: in grouped output the player_name of a group, when player_name is no
\* group column, is a most frequent name among the group's rows.
C14_NameIsGroupMode ==
  (done = "returned" /\ Grouped /\ CarriesName(arg.df, arg.group_by)) =>
    \A i \in DOMAIN returned.rows :
      returned.rows[i]["player_name"] \in MostFrequentNames(Behind(i))

\* the synthesized table of the outermost call, once it is built
RepBuilt == Len(calls) >= 1 /\ calls[1].rep # NoTable

\* the input rows summarised by the i-th row of the synthesized table
RepRows(i) ==
  GroupRows(arg.df, arg.group_by, KeyOf(calls[1].rep.rows[i], arg.group_by))

\* the weights of np.average: the minutes, 1 for a row of 0 minutes
PctWeights(rows) ==
  [j \in DOMAIN rows |->
     IF IsZero(rows[j]["minutes"]) THEN FromInt[1] ELSE rows[j]["minutes"]]

\* 1 - 2^(3 - Prec) and 1 + 2^(3 - Prec): eight units of roundoff
SlackBelow == Sub[FromInt[1], Round[1, 3 - Prec]]

SlackAbove == Add[FromInt[1], Round[1, 3 - Prec]]

\* no percentage and no minutes of the rows is null
Recorded(rows, c) ==
  \A j \in DOMAIN rows : IsNum(rows[j][c]) /\ IsNum(rows[j]["minutes"])

ZeroFilled(t) ==
  Table(t.cols,
        [i \in DOMAIN t.rows |->
           [c \in t.cols |->
              IF c \in numeric_cols THEN Safe[t.rows[i][c]] ELSE t.rows[i][c]]])

\* C16: a null raw stat counts exactly as 0: the call returns what it would
\* return for the input whose null stats are replaced by 0, at row level and
\* grouped.
C16_NullCountsAsZero ==
  done = "returned" =>
    \E u \in {Unsorted([arg EXCEPT !.df = ZeroFilled(arg.df)])} :
       /\ returned.cols = u.cols
       /\ IF Grouped THEN returned.rows \in SortedOrders(u)
          ELSE returned.rows = u.rows

\* the minutes of the entity behind the i-th returned row: the row's minutes,
\* or the summed minutes of its group
EntityMinutes(i) ==
  IF Grouped THEN GroupSum(Behind(i), "minutes")
  ELSE Safe[arg.df.rows[i]["minutes"]]

\* the minutes of every entity of the population scored
PopulationMinutes == [i \in DOMAIN returned.rows |-> EntityMinutes(i)]

\* C17: min_mult is relative to the mean minutes of the population scored in
\* the call: an entity at the mean has min_mult exactly 1, one below it less
\* than 1, one above it more than 1, and a population of one entity with
\* positive minutes has min_mult 1 and pele_raw equal to base_score.
C17_MinMultRelativeToMean ==
  done = "returned" =>
    \E ref \in {Mean(PopulationMinutes)}, one \in {FromInt[1]} :
      \A i \in DOMAIN returned.rows :
        \E m \in {EntityMinutes(i)}, min_mult \in {returned.rows[i]["min_mult"]} :
           /\ m = ref => min_mult = one
           /\ Less[m, ref] => Less[min_mult, one]
           /\ Less[ref, m] => Less[one, min_mult]
           /\ (Len(returned.rows) = 1 /\ Less[Zero, m]) =>
                /\ min_mult = one
                /\ returned.rows[i]["pele_raw"] = returned.rows[i]["base_score"]

\* the weight names compute_pele looks up (metric_position_weighted.py:193-211)
scorer_stats ==
  { "goals", "assists", "xg", "xa", "key_passes", "prog_pass", "prog_carry",
    "dribbles", "turnovers", "pressures", "tackles_int", "blocks", "aerials" }

\* the tables scored so far by the frames of the position-weighted scorer
ScoredTables ==
  { calls[k].out : k \in { j \in DOMAIN calls : calls[j].out # NoTable } }

\* C18: in the position-weighted scorer both tables have an entry for every
\* bucket and every stat the scorer looks up, the bucket of every scored row
\* is a key of the position table, each position entry is an integer from 1
\* to 5, and the effective weight is positive and at most 5 times the base
\* magnitude of its stat.
C18_WeightsBounded ==
  /\ \A b \in Buckets, s \in scorer_stats :
       /\ b \in DOMAIN POSITION_WEIGHTS
       /\ s \in DOMAIN POSITION_WEIGHTS[b]
       /\ s \in DOMAIN BASE_WEIGHTS
       /\ POSITION_WEIGHTS[b][s] \in 1..5
       /\ \E w \in {get_weight(s, b)} :
             /\ Less[Zero, w]
             /\ Leq[w, Mul[FromInt[5], BASE_WEIGHTS[s]]]
  /\ \A t \in ScoredTables :
       \A i \in DOMAIN t.rows : t.rows[i]["pos_bucket"] \in DOMAIN POSITION_WEIGHTS

\* a call scored a striker and a centre-back, each with the weights of its
\* bucket
C18_Witness ==
  \E t \in ScoredTables :
     /\ \E i \in DOMAIN t.rows :
           t.rows[i]["pos_bucket"] = "FW" /\ ~IsZero(t.rows[i]["oc"])
     /\ \E i \in DOMAIN t.rows :
           t.rows[i]["pos_bucket"] = "CB" /\ ~IsZero(t.rows[i]["dc"])

\* the buckets of the most frequent labels of the rows, the nulls left out;
\* the bucket of the first row's label when every label is null
ModalBuckets(rows) ==
  LET labels == SelectSeq([j \in DOMAIN rows |-> rows[j]["position"]],
                          LAMBDA l : ~l.null)
      Count(l) == Cardinality({ j \in DOMAIN labels : labels[j] = l })
  IN IF Len(labels) = 0 THEN { PositionBucket(rows[1]["position"]) }
     ELSE { PositionBucket(l) :
              l \in { m \in Range(labels) :
                        \A o \in Range(labels) : Count(o) <= Count(m) } }

PcRank(pc) ==
  IF pc \in {"validate", "pw_validate"} THEN 1
  ELSE IF pc \in {"score", "pw_score"} THEN 2
  ELSE IF pc \in {"aggregate", "pw_aggregate"} THEN 3
  ELSE IF pc \in {"select", "pw_select"} THEN 4
  ELSE IF pc = "merge" THEN 5
  ELSE IF pc = "standardize" THEN 6
  ELSE 7

\* the tables of a frame
FrameTables(f) == {f.out, f.rep, f.tmp, f.result}

\* at most one call is nested, in a grouped call that waits for it; the nested
\* call neither groups nor standardizes, and pele_100 exists only in the final
\* table of the outermost call
NestingIsShallow ==
  /\ Len(calls) <= 2
  /\ Len(calls) = 2 =>
       /\ Len(calls[1].group_by) > 0
       /\ calls[1].pc \in {"select", "pw_select"}
       /\ calls[2].df = calls[1].rep
       /\ calls[2].group_by = <<>>
       /\ ~calls[2].standardize
       /\ PcRank(calls[2].pc) \in {1, 2, 7}
  /\ \A k \in DOMAIN calls :
       (\E t \in FrameTables(calls[k]) : "pele_100" \in t.cols) =>
          /\ k = 1
          /\ calls[1].standardize
          /\ calls[1].pc = "return"
          /\ "pele_100" \notin calls[1].tmp.cols
          /\ "pele_100" \notin calls[1].rep.cols

\* a step moves the outermost call forward in its body; a call is nested only
\* by the step from the aggregation to the selection, which a call takes once
CallsOnce ==
  /\ (Len(calls) >= 1 /\ Len(calls') >= 1) =>
        PcRank(calls'[1].pc) >= PcRank(calls[1].pc)
  /\ (Len(calls) = 1 /\ Len(calls') = 1) =>
        PcRank(calls'[1].pc) > PcRank(calls[1].pc)
  /\ Len(calls') > Len(calls) =>
        /\ Len(calls) = 1
        /\ PcRank(calls[1].pc) = 3
        /\ PcRank(calls'[1].pc) = 4
        /\ PcRank(calls'[2].pc) = 1

\* C20: every call of compute_pele ends, by a return or by an exception; a
\* grouped call nests one row-level call on its synthesized table, once, with
\* grouping and standardization off, no call is nested deeper, and pele_100 is
\* computed once, on the final grouped result.
C20_CallTerminates ==
  /\ []NestingIsShallow
  /\ [][CallsOnce]_vars
  /\ <>(done # "running")

\* a grouped, standardizing call waits for its nested call, which is scoring
\* the synthesized table
C20_Witness ==
  /\ Len(calls) = 2
  /\ calls[1].standardize
  /\ calls[2].pc \in {"score", "pw_score"}
  /\ Len(calls[2].df.rows) = 2

=============================================================================
